---- MODULE Spec2Model ----
(***************************************************************************)
(* A model of mappingla.py, the client of the Mapping L.A. boundary API:   *)
(* URL construction, the process-wide response cache, the per-object lazy  *)
(* accessors and the two public namespaces.                                *)
(*                                                                         *)
(* Representation of Python values:                                        *)
(*   - a value that may be None is a sequence of length <= 1:              *)
(*     <<>> is None and <<v>> is the value v;                              *)
(*   - a str that is percent-encoded (a slug) is a sequence of one-        *)
(*     character strings; a URL is a sequence of string tokens;            *)
(*   - a response body is a TLA+ string holding the literal text;          *)
(*   - a dict is a function from its keys to its values.                   *)
(***************************************************************************)
EXTENDS Integers, Sequences, FiniteSets, TLC

(***************************************************************************)
(* Bounds of the model.                                                    *)
(***************************************************************************)
\* network GETs attempted over a run of Spec
MaxGets == 3
\* entity objects the caller keeps a reference to
MaxObjs == 2
\* network GETs attempted over a run of SpecApi
MaxApiGets == 2
\* network GETs attempted over a run of SpecArgs
MaxArgGets == 1
\* network GETs attempted over a run of SpecThreads
MaxThreadGets == 3

None == <<>>
Some(v) == <<v>>

(***************************************************************************)
(* Inputs.                                                                 *)
(***************************************************************************)
\* slug arguments: None, '', 'dt', 'e p'
Slugs == {None, Some(<<>>), Some(<<"d", "t">>), Some(<<"e", " ", "p">>)}
\* lat arguments
Lats == {None, Some(0), Some(34)}
\* lng arguments
Lngs == {None, Some(0), Some(-118)}

\* The bodies the server answers with.
B_EMPTY == ""
B_KML == "<kml/>"
B_OBJ == "{\"name\":\"Downtown\",\"json_url\":\"bogus\",\"boundaries\":[\"poly\"]}"
B_OBJ0 == "{\"name\":\"Acton\",\"boundaries\":[]}"
B_LISTN == "{\"neighborhoods\":[{\"name\":\"Acton\",\"kml_url\":\"k\"},{\"name\":\"Adams\"}]}"
B_LISTR == "{\"regions\":[{\"name\":\"Westside\",\"kml_url\":\"k\"}]}"
Bodies == {B_EMPTY, B_KML, B_OBJ, B_OBJ0, B_LISTN, B_LISTR}

\* What one network GET can answer: a 2xx with a body, an HTTP error status,
\* or (status 0) a transport-level failure with no HTTP status at all.
Answers ==
  {[status |-> 200, body |-> b] : b \in Bodies}
    \cup {[status |-> s, body |-> ""] : s \in {404, 500, 0}}

Formats == {"json", "kml", "kmz"}

VARIABLES
  cache,      \* mappingla._cache: URL -> body
  objs,       \* the entity objects the caller holds, each [cls, d]
  dictorder,  \* the interpreter's iteration order of the keys of a dict
  ngets,      \* history: network GETs attempted so far
  okGets,     \* history: URL -> successful GETs made by _apicall
  pend404,    \* history: URLs whose latest _apicall was answered 404
  threads,    \* per thread: where it stands in _apicall or _get_url
  last        \* history: the latest call, its arguments and its outcome

vars == <<cache, objs, dictorder, ngets, okGets, pend404, threads, last>>

(***************************************************************************)
(* Python truthiness, str() and the json module.                           *)
(***************************************************************************)
\* bool(x) of a str (or None)
TruthyStr(o) == o # None /\ o[1] # ""
\* bool(x) of a number (or None)
TruthyNum(o) == o # None /\ o[1] # 0
\* bool(x) of a sequence-of-characters str or of a list (or None)
TruthySeq(o) == o # None /\ Len(o[1]) > 0

DigitChars == <<"0", "1", "2", "3", "4", "5", "6", "7", "8", "9">>

RECURSIVE StrNat(_)
StrNat(n) ==
  IF n < 10 THEN <<DigitChars[n + 1]>>
  ELSE StrNat(n \div 10) \o <<DigitChars[(n % 10) + 1]>>

\* str(n) of an integer
StrInt(n) == IF n < 0 THEN <<"-">> \o StrNat(0 - n) ELSE StrNat(n)

\* json.loads(body): None stands for the ValueError of an undecodable body
JsonLoads(body) ==
  CASE body = B_OBJ ->
         Some([name |-> "Downtown", json_url |-> <<"bogus">>,
               boundaries |-> <<"poly">>])
    [] body = B_OBJ0 -> Some([name |-> "Acton", boundaries |-> <<>>])
    [] body = B_LISTN ->
         Some([neighborhoods |-> <<[name |-> "Acton", kml_url |-> <<"k">>],
                                   [name |-> "Adams"]>>])
    [] body = B_LISTR ->
         Some([regions |-> <<[name |-> "Westside", kml_url |-> <<"k">>]>>])
    [] OTHER -> None

(***************************************************************************)
(* urllib.quote_plus and urllib.urlencode.                                 *)
(***************************************************************************)
\* urllib.always_safe, restricted to the characters the inputs are made of
AlwaysSafe == {"d", "e", "p", "t", "0", "1", "2", "3", "4", "5",
               "6", "7", "8", "9", "_", ".", "-"}

\* '%%%02X' % ord(c) for the other characters the inputs are made of
PercentHex(c) == CASE c = "&" -> "%26" [] c = "/" -> "%2F" [] c = "=" -> "%3D"

quote_plus_char(c) ==
  IF c = " " THEN "+"
  ELSE IF c \in AlwaysSafe THEN c
  ELSE PercentHex(c)

RECURSIVE quote_plus(_)
quote_plus(s) ==
  IF s = <<>> THEN <<>>
  ELSE <<quote_plus_char(Head(s))>> \o quote_plus(Tail(s))

\* str(v) of the value of a query parameter
ParamStr(k, v) == IF k = "slug" THEN v ELSE StrInt(v)

RECURSIVE urlencode_keys(_, _)
urlencode_keys(ks, params) ==
  IF ks = <<>> THEN <<>>
  ELSE LET k == Head(ks)
           rest == urlencode_keys(Tail(ks), params)
       IN IF k \in DOMAIN params
          THEN <<k, "=">> \o quote_plus(ParamStr(k, params[k]))
                 \o (IF rest = <<>> THEN <<>> ELSE <<"&">> \o rest)
          ELSE rest

\* urllib.urlencode(params): the pairs in the dict's iteration order
urlencode(params) == urlencode_keys(dictorder, params)

(***************************************************************************)
(* mappingla._makeurl                                                      *)
(***************************************************************************)
BASE_URL == "http://projects.latimes.com/mapping-la/api/"

\* _makeurl putting 'json' where the format goes, whatever format is asked
makeurl_json(version, area_type, method, format, params) ==
  LET url == <<BASE_URL, version, "/", area_type, "/", method, ".", "json">>
  IN IF DOMAIN params # {}
     THEN url \o <<"?">> \o urlencode(params)
     ELSE url

makeurl(version, area_type, method, format, params) ==
  LET url == <<BASE_URL, version, "/", area_type, "/", method, ".", format>>
  IN IF DOMAIN params # {}
     THEN url \o <<"?">> \o urlencode(params)
     ELSE url

\* the keyword defaults of _makeurl
DefaultVersion == "v1"
DefaultFormat == "json"

\* _makeurl called with keywords: version and format are None when the
\* caller leaves them out, and params is NoParams when it is left out or
\* is an empty dict
makeurl_kw(version, area_type, method, format, params) ==
  makeurl(IF version = None THEN DefaultVersion ELSE version[1],
          area_type, method,
          IF format = None THEN DefaultFormat ELSE format[1],
          params)

(***************************************************************************)
(* GeographyDoesNotExist                                                   *)
(***************************************************************************)
\* the text _apicall hands to the exception it raises on a 404
NotFoundMessage == <<"The API data you requested could not be found.">>

\* GeographyDoesNotExist.__init__: the exception keeps value as .parameter
GeographyDoesNotExist(value) == [parameter |-> value]

(***************************************************************************)
(* urllib2.urlopen(url).read()                                             *)
(***************************************************************************)
urlopen(net) ==
  IF net.status = 200 THEN [exc |-> "none", code |-> 200, body |-> net.body]
  ELSE IF net.status = 0 THEN [exc |-> "URLError", code |-> 0, body |-> ""]
  ELSE [exc |-> "HTTPError", code |-> net.status, body |-> ""]

(***************************************************************************)
(* Variants of _apicall that the properties below must tell apart from it. *)
(***************************************************************************)
\* _apicall with the 404 test dropping out: the HTTPError is re-raised as is
apicall_untranslated(c, kwargs, net) ==
  LET url == makeurl(DefaultVersion, kwargs.area_type, kwargs.method,
                     DefaultFormat, kwargs.params)
      response == IF url \in DOMAIN c THEN Some(c[url]) ELSE None
  IN IF ~TruthyStr(response)
     THEN LET r == urlopen(net)
          IN IF r.exc = "none"
             THEN [url |-> url, nget |-> 1, status |-> net.status,
                   exc |-> "none", code |-> 200,
                   response |-> Some(r.body), parameter |-> None,
                   cache |-> (url :> r.body) @@ c]
             ELSE IF r.exc = "HTTPError" /\ r.code = 404
             THEN [url |-> url, nget |-> 1, status |-> net.status,
                   exc |-> r.exc, code |-> r.code,
                   response |-> None, parameter |-> None,
                   cache |-> c]
             ELSE [url |-> url, nget |-> 1, status |-> net.status,
                   exc |-> r.exc, code |-> r.code,
                   response |-> None, parameter |-> None,
                   cache |-> c]
     ELSE [url |-> url, nget |-> 0, status |-> -1,
           exc |-> "none", code |-> 0,
           response |-> response, parameter |-> None,
           cache |-> c]

\* _apicall translating an HTTPError of any code
apicall_any_code(c, kwargs, net) ==
  LET url == makeurl(DefaultVersion, kwargs.area_type, kwargs.method,
                     DefaultFormat, kwargs.params)
      response == IF url \in DOMAIN c THEN Some(c[url]) ELSE None
  IN IF ~TruthyStr(response)
     THEN LET r == urlopen(net)
          IN IF r.exc = "none"
             THEN [url |-> url, nget |-> 1, status |-> net.status,
                   exc |-> "none", code |-> 200,
                   response |-> Some(r.body), parameter |-> None,
                   cache |-> (url :> r.body) @@ c]
             ELSE IF r.exc = "HTTPError"
             THEN [url |-> url, nget |-> 1, status |-> net.status,
                   exc |-> "GeographyDoesNotExist", code |-> 0,
                   response |-> None, parameter |->
                     Some(GeographyDoesNotExist(NotFoundMessage).parameter),
                   cache |-> c]
             ELSE [url |-> url, nget |-> 1, status |-> net.status,
                   exc |-> r.exc, code |-> r.code,
                   response |-> None, parameter |-> None,
                   cache |-> c]
     ELSE [url |-> url, nget |-> 0, status |-> -1,
           exc |-> "none", code |-> 0,
           response |-> response, parameter |-> None,
           cache |-> c]

(***************************************************************************)
(* mappingla._apicall: the outcome of one call on cache c for the URL      *)
(* built from kwargs, when the network (if asked) answers net.             *)
(***************************************************************************)
apicall(c, kwargs, net) ==
  LET url == makeurl(DefaultVersion, kwargs.area_type, kwargs.method,
                     DefaultFormat, kwargs.params)
      response == IF url \in DOMAIN c THEN Some(c[url]) ELSE None
  IN IF ~TruthyStr(response)
     THEN LET r == urlopen(net)
          IN IF r.exc = "none"
             THEN [url |-> url, nget |-> 1, status |-> net.status,
                   exc |-> "none", code |-> 200,
                   response |-> Some(r.body), parameter |-> None,
                   cache |-> (url :> r.body) @@ c]
             ELSE IF r.exc = "HTTPError" /\ r.code = 404
             THEN [url |-> url, nget |-> 1, status |-> net.status,
                   exc |-> "GeographyDoesNotExist", code |-> 0,
                   response |-> None, parameter |->
                     Some(GeographyDoesNotExist(NotFoundMessage).parameter),
                   cache |-> c]
             ELSE [url |-> url, nget |-> 1, status |-> net.status,
                   exc |-> r.exc, code |-> r.code,
                   response |-> None, parameter |-> None,
                   cache |-> c]
     ELSE [url |-> url, nget |-> 0, status |-> -1,
           exc |-> "none", code |-> 0,
           response |-> response, parameter |-> None,
           cache |-> c]

(***************************************************************************)
(* _apicall as two steps of a thread: the look in the cache, and what      *)
(* follows a miss.  Another thread can run between the two, while this     *)
(* one waits for the network.                                              *)
(***************************************************************************)
\* url = _makeurl(**kwargs); response = _cache.get(url, None);
\* if not response
apicall_check(c, kwargs) ==
  LET url == makeurl(DefaultVersion, kwargs.area_type, kwargs.method,
                     DefaultFormat, kwargs.params)
      response == IF url \in DOMAIN c THEN Some(c[url]) ELSE None
  IN [url |-> url, response |-> response, miss |-> ~TruthyStr(response)]

\* the try block looking in the cache once more, and fetching only if the
\* URL has no body there yet
apicall_fetch_rechecked(c, url, net) ==
  IF url \in DOMAIN c /\ c[url] # ""
  THEN [url |-> url, nget |-> 0, status |-> -1, exc |-> "none", code |-> 0,
        response |-> Some(c[url]), parameter |-> None, cache |-> c]
  ELSE LET r == urlopen(net)
       IN IF r.exc = "none"
          THEN [url |-> url, nget |-> 1, status |-> net.status,
                exc |-> "none", code |-> 200,
                response |-> Some(r.body), parameter |-> None,
                cache |-> (url :> r.body) @@ c]
          ELSE IF r.exc = "HTTPError" /\ r.code = 404
          THEN [url |-> url, nget |-> 1, status |-> net.status,
                exc |-> "GeographyDoesNotExist", code |-> 0,
                response |-> None,
                parameter |->
                  Some(GeographyDoesNotExist(NotFoundMessage).parameter),
                cache |-> c]
          ELSE [url |-> url, nget |-> 1, status |-> net.status,
                exc |-> r.exc, code |-> r.code,
                response |-> None, parameter |-> None,
                cache |-> c]

\* the try block, on the cache c as it is when the response arrives
apicall_fetch(c, url, net) ==
  LET r == urlopen(net)
  IN IF r.exc = "none"
     THEN [url |-> url, nget |-> 1, status |-> net.status,
           exc |-> "none", code |-> 200,
           response |-> Some(r.body), parameter |-> None,
           cache |-> (url :> r.body) @@ c]
     ELSE IF r.exc = "HTTPError" /\ r.code = 404
     THEN [url |-> url, nget |-> 1, status |-> net.status,
           exc |-> "GeographyDoesNotExist", code |-> 0,
           response |-> None,
           parameter |->
             Some(GeographyDoesNotExist(NotFoundMessage).parameter),
           cache |-> c]
     ELSE [url |-> url, nget |-> 1, status |-> net.status,
           exc |-> r.exc, code |-> r.code,
           response |-> None, parameter |-> None,
           cache |-> c]

NoParams == <<>>

\* The outcome of a public call, as the caller and the histories see it.
\* A call that raises before it reaches _apicall:
Raised(c, exc) ==
  [apicalled |-> FALSE, method |-> "", area_type |-> "", params |-> NoParams,
   url |-> <<>>, nget |-> 0, status |-> -1, exc |-> exc, code |-> 0,
   response |-> None, parameter |-> None, cache |-> c, ret |-> <<>>]

\* A call that went through _apicall (outcome a) and then raised exc
\* (exc = "none": returned the entities ret):
Called(kwargs, a, exc, ret) ==
  [apicalled |-> TRUE, method |-> kwargs.method,
   area_type |-> kwargs.area_type, params |-> kwargs.params,
   url |-> a.url, nget |-> a.nget, status |-> a.status, exc |-> exc,
   code |-> a.code, response |-> a.response, parameter |-> a.parameter,
   cache |-> a.cache, ret |-> ret]

(***************************************************************************)
(* mappingla._getall and the two all()                                     *)
(***************************************************************************)
\* area_type[:-1] of the two plural area types
DropLast(area_type) ==
  CASE area_type = "neighborhoods" -> "neighborhood"
    [] area_type = "regions" -> "region"

\* _getall: the _apicall outcome and the list under the plural key
\* (list = None when decoding raised exc)
getall(area_type, c, net) ==
  LET kwargs == [area_type |-> DropLast(area_type), method |-> "getList",
                 params |-> NoParams]
      a == apicall(c, kwargs, net)
      dec == IF a.exc = "none" THEN JsonLoads(a.response[1]) ELSE None
  IN IF a.exc # "none" THEN [kwargs |-> kwargs, a |-> a, exc |-> a.exc,
                             list |-> None]
     ELSE IF dec = None THEN [kwargs |-> kwargs, a |-> a,
                              exc |-> "ValueError", list |-> None]
     ELSE IF area_type \notin DOMAIN dec[1]
     THEN [kwargs |-> kwargs, a |-> a, exc |-> "KeyError", list |-> None]
     ELSE [kwargs |-> kwargs, a |-> a, exc |-> "none",
           list |-> Some(dec[1][area_type])]

\* BaseGeographyObject.__init__ in a subclass named cls
NewObject(cls, d) == [cls |-> cls, d |-> d]

\* neighborhoods.all giving each listed object a kml_url of its own making,
\* as get() does
neighborhoods_all_urls(c, net) ==
  LET g == getall("neighborhoods", c, net)
  IN IF g.exc # "none" THEN Called(g.kwargs, g.a, g.exc, <<>>)
     ELSE Called(g.kwargs, g.a, "none",
                 [i \in 1..Len(g.list[1]) |->
                    NewObject("Neighborhood",
                              ("kml_url" :> makeurl(DefaultVersion,
                                                    g.kwargs.area_type,
                                                    g.kwargs.method, "kml",
                                                    g.kwargs.params))
                                @@ g.list[1][i])])

neighborhoods_all(c, net) ==
  LET g == getall("neighborhoods", c, net)
  IN IF g.exc # "none" THEN Called(g.kwargs, g.a, g.exc, <<>>)
     ELSE Called(g.kwargs, g.a, "none",
                 [i \in 1..Len(g.list[1]) |->
                    NewObject("Neighborhood", g.list[1][i])])

regions_all(c, net) ==
  LET g == getall("regions", c, net)
  IN IF g.exc # "none" THEN Called(g.kwargs, g.a, g.exc, <<>>)
     ELSE Called(g.kwargs, g.a, "none",
                 [i \in 1..Len(g.list[1]) |->
                    NewObject("Neighborhood", g.list[1][i])])

(***************************************************************************)
(* The two get()                                                           *)
(***************************************************************************)
\* neighborhoods.get testing the coordinates before the slug
neighborhoods_get_kwargs_latlng_first(slug, lat, lng) ==
  IF TruthyNum(lat) /\ TruthyNum(lng)
  THEN Some([area_type |-> "neighborhood", method |-> "getByLatLng",
             params |-> [lat |-> lat[1], lng |-> lng[1]]])
  ELSE IF TruthySeq(slug)
  THEN Some([area_type |-> "neighborhood", method |-> "getBySlug",
             params |-> [slug |-> slug[1]]])
  ELSE None

\* neighborhoods.get handing lat and lng over under each other's name
neighborhoods_get_kwargs_swapped(slug, lat, lng) ==
  IF TruthySeq(slug)
  THEN Some([area_type |-> "neighborhood", method |-> "getBySlug",
             params |-> [slug |-> slug[1]]])
  ELSE IF TruthyNum(lat) /\ TruthyNum(lng)
  THEN Some([area_type |-> "neighborhood", method |-> "getByLatLng",
             params |-> [lat |-> lng[1], lng |-> lat[1]]])
  ELSE None

\* the kwargs neighborhoods.get builds; None stands for its ValueError
neighborhoods_get_kwargs(slug, lat, lng) ==
  IF TruthySeq(slug)
  THEN Some([area_type |-> "neighborhood", method |-> "getBySlug",
             params |-> [slug |-> slug[1]]])
  ELSE IF TruthyNum(lat) /\ TruthyNum(lng)
  THEN Some([area_type |-> "neighborhood", method |-> "getByLatLng",
             params |-> [lat |-> lat[1], lng |-> lng[1]]])
  ELSE None

\* the object neighborhoods.get builds from the decoded response
neighborhoods_get_obj(d, kwargs) ==
  LET obj == NewObject("Neighborhood", d)
      d1 == ("kml_url" :> makeurl(DefaultVersion, kwargs.area_type,
                                  kwargs.method, "kml", kwargs.params))
              @@ obj.d
      d2 == ("kmz_url" :> makeurl(DefaultVersion, kwargs.area_type,
                                  kwargs.method, "kmz", kwargs.params))
              @@ d1
      d3 == ("json_url" :> makeurl(DefaultVersion, kwargs.area_type,
                                   kwargs.method, "json", kwargs.params))
              @@ d2
  IN [obj EXCEPT !.d = d3]

\* neighborhoods.get taking a body that does not decode out of the cache
\* again
neighborhoods_get_evicting(slug, lat, lng, c, net) ==
  LET k == neighborhoods_get_kwargs(slug, lat, lng)
  IN IF k = None THEN Raised(c, "ValueError")
     ELSE LET kwargs == k[1]
              a == apicall(c, kwargs, net)
              dec == IF a.exc = "none" THEN JsonLoads(a.response[1]) ELSE None
          IN IF a.exc # "none" THEN Called(kwargs, a, a.exc, <<>>)
             ELSE IF dec = None
             THEN Called(kwargs, [a EXCEPT !.cache = c], "ValueError", <<>>)
             ELSE Called(kwargs, a, "none",
                         <<neighborhoods_get_obj(dec[1], kwargs)>>)

neighborhoods_get(slug, lat, lng, c, net) ==
  LET k == neighborhoods_get_kwargs(slug, lat, lng)
  IN IF k = None THEN Raised(c, "ValueError")
     ELSE LET kwargs == k[1]
              a == apicall(c, kwargs, net)
              dec == IF a.exc = "none" THEN JsonLoads(a.response[1]) ELSE None
          IN IF a.exc # "none" THEN Called(kwargs, a, a.exc, <<>>)
             ELSE IF dec = None THEN Called(kwargs, a, "ValueError", <<>>)
             ELSE Called(kwargs, a, "none",
                         <<neighborhoods_get_obj(dec[1], kwargs)>>)

\* regions.get testing lng against None instead of for truth
regions_get_kwargs_lng_none(slug, lat, lng) ==
  IF TruthySeq(slug)
  THEN Some([area_type |-> "region", method |-> "getBySlug",
             params |-> [slug |-> slug[1]]])
  ELSE IF TruthyNum(lat) /\ lng # None
  THEN Some([area_type |-> "region", method |-> "getByLatLng",
             params |-> [lat |-> lat[1], lng |-> lng[1]]])
  ELSE None

\* the kwargs regions.get builds; None stands for its ValueError
regions_get_kwargs(slug, lat, lng) ==
  IF TruthySeq(slug)
  THEN Some([area_type |-> "region", method |-> "getBySlug",
             params |-> [slug |-> slug[1]]])
  ELSE IF TruthyNum(lat) /\ TruthyNum(lng)
  THEN Some([area_type |-> "region", method |-> "getByLatLng",
             params |-> [lat |-> lat[1], lng |-> lng[1]]])
  ELSE None

\* regions.get leaving alone a json_url the response already has
regions_get_obj_keep(d, kwargs) ==
  LET obj == NewObject("Region", d)
      d1 == ("kml_url" :> makeurl(DefaultVersion, kwargs.area_type,
                                  kwargs.method, "kml", kwargs.params))
              @@ obj.d
      d2 == ("kmz_url" :> makeurl(DefaultVersion, kwargs.area_type,
                                  kwargs.method, "kmz", kwargs.params))
              @@ d1
      d3 == d2 @@ ("json_url" :> makeurl(DefaultVersion, kwargs.area_type,
                                         kwargs.method, "json",
                                         kwargs.params))
  IN [obj EXCEPT !.d = d3]

\* the object regions.get builds from the decoded response
regions_get_obj(d, kwargs) ==
  LET obj == NewObject("Region", d)
      d1 == ("kml_url" :> makeurl(DefaultVersion, kwargs.area_type,
                                  kwargs.method, "kml", kwargs.params))
              @@ obj.d
      d2 == ("kmz_url" :> makeurl(DefaultVersion, kwargs.area_type,
                                  kwargs.method, "kmz", kwargs.params))
              @@ d1
      d3 == ("json_url" :> makeurl(DefaultVersion, kwargs.area_type,
                                   kwargs.method, "json", kwargs.params))
              @@ d2
  IN [obj EXCEPT !.d = d3]

regions_get(slug, lat, lng, c, net) ==
  LET k == regions_get_kwargs(slug, lat, lng)
  IN IF k = None THEN Raised(c, "ValueError")
     ELSE LET kwargs == k[1]
              a == apicall(c, kwargs, net)
              dec == IF a.exc = "none" THEN JsonLoads(a.response[1]) ELSE None
          IN IF a.exc # "none" THEN Called(kwargs, a, a.exc, <<>>)
             ELSE IF dec = None THEN Called(kwargs, a, "ValueError", <<>>)
             ELSE Called(kwargs, a, "none",
                         <<regions_get_obj(dec[1], kwargs)>>)

(***************************************************************************)
(* BaseGeographyObject._get_url and the properties json, kml, kmz          *)
(***************************************************************************)
\* one attribute shared by the kml and the kmz accessor
cache_attr_shared(format) ==
  CASE format = "json" -> "_cached_json"
    [] format = "kml" -> "_cached_kml"
    [] format = "kmz" -> "_cached_kml"

\* '_cached_%s' % format
cache_attr(format) ==
  CASE format = "json" -> "_cached_json"
    [] format = "kml" -> "_cached_kml"
    [] format = "kmz" -> "_cached_kmz"

\* getattr(self, attr, None)
getattr(d, attr) == IF attr \in DOMAIN d THEN Some(d[attr]) ELSE None

\* bool() of what a slot of the given format holds: the json slot holds the
\* decoded 'boundaries' list, the other two the body text
Truthy(format, o) == IF format = "json" THEN TruthySeq(o) ELSE TruthyStr(o)

\* The outcome of an accessor read on the object with attributes d.
ReadOutcome(d, url, nget, status, exc, code, value) ==
  [d |-> d, url |-> url, nget |-> nget, status |-> status, exc |-> exc,
   code |-> code, value |-> value]

\* _get_url memoizing per URL for the whole class: a value that any entity
\* the caller holds has memoized for this URL is taken over without a GET
get_url_class_memo(d, url, format, net) ==
  LET attr == cache_attr(format)
      name == CASE format = "json" -> "json_url"
                [] format = "kml" -> "kml_url"
                [] format = "kmz" -> "kmz_url"
      holders == {j \in DOMAIN objs :
                    /\ name \in DOMAIN objs[j].d
                    /\ objs[j].d[name] = url
                    /\ Truthy(format, getattr(objs[j].d, attr))}
      held == objs[CHOOSE j \in holders : TRUE].d[attr]
  IN IF holders # {}
     THEN ReadOutcome((attr :> held) @@ d, url, 0, -1, "none", 0, Some(held))
     ELSE LET r == urlopen(net)
              dec == JsonLoads(r.body)
          IN IF r.exc # "none"
             THEN ReadOutcome(d, url, 1, net.status, r.exc, r.code, None)
             ELSE IF format = "json"
             THEN IF dec = None
                  THEN ReadOutcome(d, url, 1, net.status, "ValueError", 0,
                                   None)
                  ELSE IF "boundaries" \notin DOMAIN dec[1]
                  THEN ReadOutcome(d, url, 1, net.status, "KeyError", 0, None)
                  ELSE ReadOutcome((attr :> dec[1].boundaries) @@ d, url, 1,
                                   net.status, "none", 0,
                                   Some(dec[1].boundaries))
             ELSE ReadOutcome((attr :> r.body) @@ d, url, 1, net.status,
                              "none", 0, Some(r.body))

\* _get_url leaving an empty value in the slot when the fetch or the
\* parsing raises
get_url_blank_on_error(d, url, format, net) ==
  LET attr == cache_attr(format)
      blank == (attr :> (IF format = "json" THEN <<>> ELSE "")) @@ d
  IN IF ~Truthy(format, getattr(d, attr))
     THEN LET r == urlopen(net)
              dec == JsonLoads(r.body)
          IN IF r.exc # "none"
             THEN ReadOutcome(blank, url, 1, net.status, r.exc, r.code, None)
             ELSE IF format = "json"
             THEN IF dec = None
                  THEN ReadOutcome(blank, url, 1, net.status, "ValueError", 0,
                                   None)
                  ELSE IF "boundaries" \notin DOMAIN dec[1]
                  THEN ReadOutcome(blank, url, 1, net.status, "KeyError", 0,
                                   None)
                  ELSE ReadOutcome((attr :> dec[1].boundaries) @@ d, url, 1,
                                   net.status, "none", 0,
                                   Some(dec[1].boundaries))
             ELSE ReadOutcome((attr :> r.body) @@ d, url, 1, net.status,
                              "none", 0, Some(r.body))
     ELSE ReadOutcome(d, url, 0, -1, "none", 0, getattr(d, attr))

\* _get_url going through the response cache and the 404 translation
get_url_cached(d, url, format, net) ==
  LET attr == cache_attr(format)
      hit == url \in DOMAIN cache /\ cache[url] # ""
      r == IF hit THEN [exc |-> "none", code |-> 200, body |-> cache[url]]
           ELSE urlopen(net)
      n == IF hit THEN 0 ELSE 1
      st == IF hit THEN -1 ELSE net.status
      dec == JsonLoads(r.body)
  IN IF ~Truthy(format, getattr(d, attr))
     THEN IF r.exc = "HTTPError" /\ r.code = 404
          THEN ReadOutcome(d, url, n, st, "GeographyDoesNotExist", 0, None)
          ELSE IF r.exc # "none"
          THEN ReadOutcome(d, url, n, st, r.exc, r.code, None)
          ELSE IF format = "json"
          THEN IF dec = None
               THEN ReadOutcome(d, url, n, st, "ValueError", 0, None)
               ELSE IF "boundaries" \notin DOMAIN dec[1]
               THEN ReadOutcome(d, url, n, st, "KeyError", 0, None)
               ELSE ReadOutcome((attr :> dec[1].boundaries) @@ d, url, n, st,
                                "none", 0, Some(dec[1].boundaries))
          ELSE ReadOutcome((attr :> r.body) @@ d, url, n, st, "none", 0,
                           Some(r.body))
     ELSE ReadOutcome(d, url, 0, -1, "none", 0, getattr(d, attr))

get_url(d, url, format, net) ==
  LET attr == cache_attr(format)
  IN IF ~Truthy(format, getattr(d, attr))
     THEN LET r == urlopen(net)
              dec == JsonLoads(r.body)
          IN IF r.exc # "none"
             THEN ReadOutcome(d, url, 1, net.status, r.exc, r.code, None)
             ELSE IF format = "json"
             THEN IF dec = None
                  THEN ReadOutcome(d, url, 1, net.status, "ValueError", 0,
                                   None)
                  ELSE IF "boundaries" \notin DOMAIN dec[1]
                  THEN ReadOutcome(d, url, 1, net.status, "KeyError", 0, None)
                  ELSE ReadOutcome((attr :> dec[1].boundaries) @@ d, url, 1,
                                   net.status, "none", 0,
                                   Some(dec[1].boundaries))
             ELSE ReadOutcome((attr :> r.body) @@ d, url, 1, net.status,
                              "none", 0, Some(r.body))
     ELSE ReadOutcome(d, url, 0, -1, "none", 0, getattr(d, attr))

\* _get_url as two steps of a thread: the look at the attribute, and what
\* follows finding it unset.
\* attr = '_cached_%s' % format; if not getattr(self, attr, None)
get_url_check(d, format) ==
  [miss |-> ~Truthy(format, getattr(d, cache_attr(format)))]

\* the body of the if and the return, on the __dict__ d as it is when the
\* response arrives
get_url_fetch(d, url, format, net) ==
  LET attr == cache_attr(format)
      r == urlopen(net)
      dec == JsonLoads(r.body)
  IN IF r.exc # "none"
     THEN ReadOutcome(d, url, 1, net.status, r.exc, r.code, None)
     ELSE IF format = "json"
     THEN IF dec = None
          THEN ReadOutcome(d, url, 1, net.status, "ValueError", 0, None)
          ELSE IF "boundaries" \notin DOMAIN dec[1]
          THEN ReadOutcome(d, url, 1, net.status, "KeyError", 0, None)
          ELSE ReadOutcome((attr :> dec[1].boundaries) @@ d, url, 1,
                           net.status, "none", 0, Some(dec[1].boundaries))
     ELSE ReadOutcome((attr :> r.body) @@ d, url, 1, net.status,
                      "none", 0, Some(r.body))

\* the property json (self.json_url raises AttributeError when absent)
json(d, net) ==
  IF "json_url" \notin DOMAIN d
  THEN ReadOutcome(d, <<>>, 0, -1, "AttributeError", 0, None)
  ELSE get_url(d, d.json_url, "json", net)

\* the property kml
kml(d, net) ==
  IF "kml_url" \notin DOMAIN d
  THEN ReadOutcome(d, <<>>, 0, -1, "AttributeError", 0, None)
  ELSE get_url(d, d.kml_url, "kml", net)

\* the property kmz
kmz(d, net) ==
  IF "kmz_url" \notin DOMAIN d
  THEN ReadOutcome(d, <<>>, 0, -1, "AttributeError", 0, None)
  ELSE get_url(d, d.kmz_url, "kmz", net)

(***************************************************************************)
(* The state machine.                                                      *)
(***************************************************************************)
NoCall ==
  [op |-> "init", ns |-> "", slug |-> None, lat |-> None, lng |-> None,
   obj |-> 0, format |-> "", apicalled |-> FALSE, method |-> "",
   area_type |-> "", params |-> NoParams, url |-> <<>>, nget |-> 0,
   status |-> -1, exc |-> "none", code |-> 0, response |-> None,
   ret |-> <<>>, value |-> None, pending |-> FALSE, parameter |-> None,
   version |-> None, again |-> FALSE, thread |-> 0, raced |-> FALSE]

\* the threads of the process, and a thread that is in neither _apicall
\* nor _get_url
Threads == {1, 2}
Idle == [pc |-> "idle", url |-> <<>>, obj |-> 0, format |-> ""]

\* The order in which CPython 2 iterates over the keys of params: by hash
\* slot, and hash('lat') & 7 = 0, hash('lng') & 7 = 2, hash('slug') & 7 = 5.
CPythonOrder == <<"lat", "lng", "slug">>
\* the orders another interpreter, or hash randomisation, can give
DictOrders == {CPythonOrder, <<"lng", "lat", "slug">>}

Init ==
  /\ cache = <<>>
  /\ objs = <<>>
  /\ dictorder = CPythonOrder
  /\ ngets = 0
  /\ okGets = <<>>
  /\ pend404 = {}
  /\ threads = [t \in Threads |-> Idle]
  /\ last = NoCall

Count(f, u) == IF u \in DOMAIN f THEN f[u] ELSE 0

\* the answer handed to a call that turns out not to ask the network
NoAnswer == [status |-> 404, body |-> ""]

\* the first n elements of seq, or all of seq when it has fewer
Keep(seq, n) == [i \in 1..(IF Len(seq) < n THEN Len(seq) ELSE n) |-> seq[i]]

\* A call of all() or get() with outcome e takes effect; the caller keeps
\* the returned objects it has room for.
Commit(op, ns, slug, lat, lng, e) ==
  /\ cache' = e.cache
  /\ objs' = objs \o Keep(e.ret, MaxObjs - Len(objs))
  /\ ngets' = ngets + e.nget
  /\ okGets' = IF e.nget = 1 /\ e.status = 200
               THEN (e.url :> (Count(okGets, e.url) + 1)) @@ okGets
               ELSE okGets
  /\ pend404' = IF ~e.apicalled THEN pend404
                ELSE IF e.nget = 1 /\ e.status = 404
                THEN pend404 \cup {e.url}
                ELSE pend404 \ {e.url}
  /\ last' = [op |-> op, ns |-> ns, slug |-> slug, lat |-> lat, lng |-> lng,
              obj |-> 0, format |-> "", apicalled |-> e.apicalled,
              method |-> e.method, area_type |-> e.area_type,
              params |-> e.params, url |-> e.url, nget |-> e.nget,
              status |-> e.status, exc |-> e.exc, code |-> e.code,
              response |-> e.response, ret |-> e.ret, value |-> None,
              pending |-> (e.apicalled /\ e.url \in pend404),
              parameter |-> e.parameter, version |-> None, again |-> FALSE,
              thread |-> 0, raced |-> FALSE]
  /\ UNCHANGED <<dictorder, threads>>

\* A read of an accessor of objs[i] with outcome r takes effect.
CommitRead(i, format, r) ==
  /\ objs' = [objs EXCEPT ![i].d = r.d]
  /\ ngets' = ngets + r.nget
  /\ last' = [op |-> "read", ns |-> "", slug |-> None, lat |-> None,
              lng |-> None, obj |-> i, format |-> format,
              apicalled |-> FALSE, method |-> "", area_type |-> "",
              params |-> NoParams, url |-> r.url, nget |-> r.nget,
              status |-> r.status, exc |-> r.exc, code |-> r.code,
              response |-> None, ret |-> <<>>, value |-> r.value,
              pending |-> FALSE, parameter |-> None, version |-> None,
              again |-> /\ last.op = "read"
                        /\ last.obj = i
                        /\ last.format = format
                        /\ last.exc \notin {"none", "AttributeError"},
              thread |-> 0, raced |-> FALSE]
  /\ UNCHANGED <<cache, dictorder, okGets, pend404, threads>>

\* The answers to draw from for a call that, handed NoAnswer, has outcome
\* e0: none but NoAnswer when the call asks nothing of the network, and
\* none at all when the run has used up its GETs.
Asked(e0, answers, maxGets) ==
  IF e0.nget = 0 THEN {NoAnswer}
  ELSE IF ngets < maxGets THEN answers
  ELSE {}

NeighborhoodsAllOn(answers, maxGets) ==
  \E net \in Asked(neighborhoods_all(cache, NoAnswer), answers, maxGets) :
    LET e == neighborhoods_all(cache, net)
    IN Commit("all", "neighborhoods", None, None, None, e)

RegionsAllOn(answers, maxGets) ==
  \E net \in Asked(regions_all(cache, NoAnswer), answers, maxGets) :
    LET e == regions_all(cache, net)
    IN Commit("all", "regions", None, None, None, e)

\* neighborhoods.get(slug, lat, lng) with the arguments drawn from args
NeighborhoodsGetOn(args, answers, maxGets) ==
  \E a \in args :
    \E net \in Asked(neighborhoods_get(a[1], a[2], a[3], cache, NoAnswer),
                     answers, maxGets) :
      LET e == neighborhoods_get(a[1], a[2], a[3], cache, net)
      IN Commit("get", "neighborhoods", a[1], a[2], a[3], e)

\* regions.get(slug, lat, lng) with the arguments drawn from args
RegionsGetOn(args, answers, maxGets) ==
  \E a \in args :
    \E net \in Asked(regions_get(a[1], a[2], a[3], cache, NoAnswer),
                     answers, maxGets) :
      LET e == regions_get(a[1], a[2], a[3], cache, net)
      IN Commit("get", "regions", a[1], a[2], a[3], e)

\* what a GET issued by an accessor can be answered
ReadAnswers ==
  {[status |-> 200, body |-> b] :
     b \in {B_EMPTY, B_KML, B_OBJ, B_OBJ0, B_LISTR}}
    \cup {[status |-> s, body |-> ""] : s \in {404, 0}}

ReadJson ==
  \E i \in 1..Len(objs) :
    \E net \in Asked(json(objs[i].d, NoAnswer), ReadAnswers, MaxGets) :
      LET r == json(objs[i].d, net) IN CommitRead(i, "json", r)

ReadKml ==
  \E i \in 1..Len(objs) :
    \E net \in Asked(kml(objs[i].d, NoAnswer), ReadAnswers, MaxGets) :
      LET r == kml(objs[i].d, net) IN CommitRead(i, "kml", r)

ReadKmz ==
  \E i \in 1..Len(objs) :
    \E net \in Asked(kmz(objs[i].d, NoAnswer), ReadAnswers, MaxGets) :
      LET r == kmz(objs[i].d, net) IN CommitRead(i, "kmz", r)

(***************************************************************************)
(* Spec: every operation.  get() and all() are answered with the body the  *)
(* server keeps for them; an accessor read with any of ReadAnswers.        *)
(***************************************************************************)
FewArgs ==
  {<<Some(<<"d", "t">>), None, None>>,
   <<None, None, None>>}

Ok(body) == {[status |-> 200, body |-> body]}

NeighborhoodsAll == NeighborhoodsAllOn(Ok(B_LISTN), MaxGets)
RegionsAll == RegionsAllOn(Ok(B_LISTR), MaxGets)
NeighborhoodsGet == NeighborhoodsGetOn(FewArgs, Ok(B_OBJ), MaxGets)
RegionsGet == RegionsGetOn(FewArgs, Ok(B_OBJ), MaxGets)

Next ==
  \/ NeighborhoodsAll
  \/ RegionsAll
  \/ NeighborhoodsGet
  \/ RegionsGet
  \/ ReadJson
  \/ ReadKml
  \/ ReadKmz

Spec == Init /\ [][Next]_vars

(***************************************************************************)
(* SpecApi: all() and get() with any answer of the network.                *)
(***************************************************************************)
ApiArgs ==
  {<<Some(<<"d", "t">>), None, None>>,
   <<None, Some(34), Some(-118)>>,
   <<None, None, None>>}

NeighborhoodsAllApi == NeighborhoodsAllOn(Answers, MaxApiGets)
RegionsAllApi == RegionsAllOn(Answers, MaxApiGets)
NeighborhoodsGetApi == NeighborhoodsGetOn(ApiArgs, Answers, MaxApiGets)
RegionsGetApi == RegionsGetOn(ApiArgs, Answers, MaxApiGets)

NextApi ==
  \/ NeighborhoodsAllApi
  \/ RegionsAllApi
  \/ NeighborhoodsGetApi
  \/ RegionsGetApi

SpecApi == Init /\ [][NextApi]_vars

(***************************************************************************)
(* SpecArgs: the two get() called with every combination of arguments, on  *)
(* an interpreter with either iteration order.                             *)
(***************************************************************************)
AllArgs == Slugs \X Lats \X Lngs

\* a decodable body, an undecodable one, and the two kinds of failure
SomeAnswers ==
  {[status |-> 200, body |-> B_OBJ], [status |-> 200, body |-> B_KML],
   [status |-> 404, body |-> ""], [status |-> 0, body |-> ""]}

InitArgs ==
  /\ cache = <<>>
  /\ objs = <<>>
  /\ dictorder \in DictOrders
  /\ ngets = 0
  /\ okGets = <<>>
  /\ pend404 = {}
  /\ threads = [t \in Threads |-> Idle]
  /\ last = NoCall

NeighborhoodsGetAny == NeighborhoodsGetOn(AllArgs, SomeAnswers, MaxArgGets)
RegionsGetAny == RegionsGetOn(AllArgs, SomeAnswers, MaxArgGets)

NextArgs ==
  \/ NeighborhoodsGetAny
  \/ RegionsGetAny

SpecArgs == InitArgs /\ [][NextArgs]_vars

(***************************************************************************)
(* SpecUrl: _makeurl called on its own, between calls of get() that fill   *)
(* the cache and make entities.                                            *)
(***************************************************************************)
UrlVersions == {None, Some("v2")}
UrlAreaTypes == {"neighborhood", "region"}
UrlMethods == {"getList", "getBySlug", "getByLatLng"}
UrlFormats == {None, Some("kml"), Some("kmz")}
UrlParams ==
  {NoParams,
   [slug |-> <<"d", "t">>],
   [slug |-> <<"e", " ", "p">>],
   [slug |-> <<"d", "&", "t", "=", "/", "p">>],
   [lat |-> 34, lng |-> -118],
   [lat |-> 0, lng |-> 0],
   [slug |-> <<"d", "t">>, lat |-> 34, lng |-> -118]}

\* mappingla._makeurl(version=, area_type=, method=, format=, params=)
MakeUrl ==
  \E version \in UrlVersions, area_type \in UrlAreaTypes,
     method \in UrlMethods, format \in UrlFormats, params \in UrlParams :
    /\ last' = [NoCall EXCEPT
                  !.op = "makeurl", !.version = version,
                  !.area_type = area_type, !.method = method,
                  !.format = IF format = None THEN "" ELSE format[1],
                  !.params = params,
                  !.url = makeurl_kw(version, area_type, method, format,
                                     params)]
    /\ UNCHANGED <<cache, objs, dictorder, ngets, okGets, pend404, threads>>

NeighborhoodsGetUrl == NeighborhoodsGetOn(FewArgs, Ok(B_OBJ), MaxArgGets)

NextUrl ==
  \/ MakeUrl
  \/ NeighborhoodsGetUrl

SpecUrl == InitArgs /\ [][NextUrl]_vars

(***************************************************************************)
(* SpecThreads: two threads of one process call _apicall and read the      *)
(* accessors of the entities the process holds.  A thread gives way to     *)
(* the other while it waits for the network, between its look in the       *)
(* cache (or at the attribute) and the arrival of the response.  What      *)
(* all() and get() do with the body _apicall returns touches nothing the   *)
(* threads share.                                                          *)
(***************************************************************************)
ThreadKwargs ==
  {[area_type |-> "neighborhood", method |-> "getList", params |-> NoParams],
   [area_type |-> "neighborhood", method |-> "getBySlug",
    params |-> [slug |-> <<"d", "t">>]]}
\* what a GET issued by a thread can be answered: never an empty body
ThreadAnswers == Ok(B_OBJ) \cup {[status |-> 404, body |-> ""]}
ThreadFormats == {"json", "kml"}

\* self.json_url, self.kml_url, self.kmz_url
ResourceUrl(d, format) ==
  CASE format = "json" -> d.json_url
    [] format = "kml" -> d.kml_url
    [] format = "kmz" -> d.kmz_url

\* neighborhoods.get(slug='dt') made while no thread is inside _apicall or
\* _get_url
NeighborhoodsGetAlone ==
  /\ \A t \in Threads : threads[t].pc = "idle"
  /\ NeighborhoodsGetOn({<<Some(<<"d", "t">>), None, None>>}, Ok(B_OBJ),
                        MaxThreadGets)

\* thread t enters _apicall and looks in the cache
ThreadApicallCheck(t) ==
  /\ threads[t].pc = "idle"
  /\ \E kwargs \in ThreadKwargs :
       LET k == apicall_check(cache, kwargs)
       IN /\ threads' = [threads EXCEPT ![t] =
                           IF k.miss
                           THEN [pc |-> "apicall", url |-> k.url, obj |-> 0,
                                 format |-> ""]
                           ELSE Idle]
          /\ last' = [NoCall EXCEPT
                        !.op = "apicall_check", !.thread = t,
                        !.apicalled = TRUE, !.method = kwargs.method,
                        !.area_type = kwargs.area_type,
                        !.params = kwargs.params, !.url = k.url,
                        !.response = IF k.miss THEN None ELSE k.response]
  /\ UNCHANGED <<cache, objs, dictorder, ngets, okGets, pend404>>

\* the response to thread t's GET arrives and t leaves _apicall
ThreadApicallFetch(t) ==
  /\ threads[t].pc = "apicall"
  /\ ngets < MaxThreadGets
  /\ \E net \in ThreadAnswers :
       LET a == apicall_fetch(cache, threads[t].url, net)
       IN /\ cache' = a.cache
          /\ ngets' = ngets + a.nget
          /\ okGets' = IF a.nget = 1 /\ a.status = 200
                       THEN (a.url :> (Count(okGets, a.url) + 1)) @@ okGets
                       ELSE okGets
          /\ last' = [NoCall EXCEPT
                        !.op = "apicall_fetch", !.thread = t,
                        !.apicalled = TRUE, !.url = a.url, !.nget = a.nget,
                        !.status = a.status, !.exc = a.exc, !.code = a.code,
                        !.response = a.response, !.parameter = a.parameter,
                        !.raced = /\ a.url \in DOMAIN cache
                                  /\ cache[a.url] # ""]
  /\ threads' = [threads EXCEPT ![t] = Idle]
  /\ UNCHANGED <<objs, dictorder, pend404>>

\* thread t reads an accessor of objs[i]: _get_url looks at the attribute
ThreadReadCheck(t) ==
  /\ threads[t].pc = "idle"
  /\ \E i \in DOMAIN objs, format \in ThreadFormats :
       LET d == objs[i].d
           k == get_url_check(d, format)
       IN /\ {"json_url", "kml_url", "kmz_url"} \subseteq DOMAIN d
          /\ threads' = [threads EXCEPT ![t] =
                           IF k.miss
                           THEN [pc |-> "get_url",
                                 url |-> ResourceUrl(d, format), obj |-> i,
                                 format |-> format]
                           ELSE Idle]
          /\ last' = [NoCall EXCEPT
                        !.op = "get_url_check", !.thread = t, !.obj = i,
                        !.format = format, !.url = ResourceUrl(d, format),
                        !.value = IF k.miss THEN None
                                  ELSE getattr(d, cache_attr(format))]
  /\ UNCHANGED <<cache, objs, dictorder, ngets, okGets, pend404>>

\* the response to thread t's GET arrives and t leaves _get_url
ThreadReadFetch(t) ==
  /\ threads[t].pc = "get_url"
  /\ ngets < MaxThreadGets
  /\ \E net \in ThreadAnswers :
       LET i == threads[t].obj
           format == threads[t].format
           r == get_url_fetch(objs[i].d, threads[t].url, format, net)
       IN /\ objs' = [objs EXCEPT ![i].d = r.d]
          /\ ngets' = ngets + r.nget
          /\ last' = [NoCall EXCEPT
                        !.op = "get_url_fetch", !.thread = t, !.obj = i,
                        !.format = format, !.url = r.url, !.nget = r.nget,
                        !.status = r.status, !.exc = r.exc, !.code = r.code,
                        !.value = r.value,
                        !.raced = Truthy(format,
                                         getattr(objs[i].d,
                                                 cache_attr(format)))]
  /\ threads' = [threads EXCEPT ![t] = Idle]
  /\ UNCHANGED <<cache, dictorder, okGets, pend404>>

NextThreads ==
  \/ NeighborhoodsGetAlone
  \/ \E t \in Threads : ThreadApicallCheck(t)
  \/ \E t \in Threads : ThreadApicallFetch(t)
  \/ \E t \in Threads : ThreadReadCheck(t)
  \/ \E t \in Threads : ThreadReadFetch(t)

SpecThreads == Init /\ [][NextThreads]_vars

TypeOK ==
  /\ ngets \in Nat
  /\ Len(objs) <= MaxObjs
  /\ last.nget \in {0, 1}

(***************************************************************************)
(* Properties.  In an action property, last' is the call the step makes    *)
(* and the unprimed variables are the state the call starts from.          *)
(***************************************************************************)
\* 'name_url', the attribute an accessor reads its URL from
UrlAttr(format) ==
  CASE format = "json" -> "json_url"
    [] format = "kml" -> "kml_url"
    [] format = "kmz" -> "kmz_url"

\* the tokens of a URL
Tokens(url) == {url[i] : i \in 1..Len(url)}

\* the entity variant and the singular area type of a namespace
VariantOf(ns) == IF ns = "neighborhoods" THEN "Neighborhood" ELSE "Region"
AreaOf(ns) == IF ns = "neighborhoods" THEN "neighborhood" ELSE "region"

\* C1: once an _apicall for a URL has succeeded (the URL is a key of the
\* cache), a later _apicall for it issues no network GET and returns the
\* cached body, whatever that body is, and no URL is ever fetched
\* successfully twice.
C1_CacheIdempotence ==
  [][(last'.apicalled /\ last'.url \in DOMAIN cache)
       => /\ last'.nget = 0
          /\ last'.response = Some(cache[last'.url])
          /\ \A u \in DOMAIN okGets' : okGets'[u] <= 1]_vars

\* C2: once a read of an accessor has set its slot on an entity, a later
\* read of that accessor on that entity issues no network GET and returns
\* the value in the slot, whatever that value is.
C2_LazyMemoization ==
  [][(/\ last'.op = "read"
      /\ last'.exc # "AttributeError"
      /\ cache_attr(last'.format) \in DOMAIN objs[last'.obj].d)
       => /\ last'.nget = 0
          /\ last'.value = Some(objs[last'.obj].d[cache_attr(last'.format)])
          /\ objs' = objs]_vars

\* C3: an _apicall whose GET is answered 404 raises GeographyDoesNotExist
\* and leaves the cache as it was; the next _apicall for that URL issues a
\* GET again, and caches the body if that GET succeeds.
C3_NotFoundMapping ==
  [][last'.apicalled
       => /\ (last'.nget = 1 /\ last'.status = 404)
               => /\ last'.exc = "GeographyDoesNotExist"
                  /\ cache' = cache
          /\ last'.url \in pend404
               => /\ last'.nget = 1
                  /\ last'.status = 200
                       => /\ last'.url \in DOMAIN cache'
                          /\ Some(cache'[last'.url]) = last'.response]_vars

\* C3 happens: a URL answered 404 before is fetched again, successfully,
\* and its body is in the cache.
C3_Witness ==
  /\ last.apicalled /\ last.pending
  /\ last.nget = 1 /\ last.status = 200
  /\ last.url \in DOMAIN cache /\ cache[last.url] = B_OBJ

\* a get() whose arguments give neither a slug nor a pair of coordinates
InvalidQuery(slug, lat, lng) ==
  /\ slug = None \/ slug = Some(<<>>)
  /\ \/ lat = None \/ lat = Some(0)
     \/ lng = None \/ lng = Some(0)

\* C4: a get() of either namespace with no usable slug and without both
\* coordinates raises ValueError, issues no network GET and leaves the
\* cache unchanged.
C4_FailFast ==
  [][(last'.op = "get" /\ InvalidQuery(last'.slug, last'.lat, last'.lng))
       => /\ last'.exc = "ValueError"
          /\ ~last'.apicalled
          /\ last'.nget = 0
          /\ ngets' = ngets
          /\ cache' = cache]_vars

\* C4 happens: regions.get with an empty slug and a zero longitude fails
\* while the cache holds an entry.
C4_Witness ==
  /\ last.op = "get" /\ last.ns = "regions"
  /\ last.slug = Some(<<>>) /\ last.lat = Some(34) /\ last.lng = Some(0)
  /\ last.exc = "ValueError"
  /\ DOMAIN cache # {}

\* the read the step makes is a first read: the accessor's slot is unset
FirstRead ==
  /\ last'.op = "read"
  /\ last'.exc # "AttributeError"
  /\ cache_attr(last'.format) \notin DOMAIN objs[last'.obj].d

C6_SlugPrecedence ==
  (/\ last.op = "get"
   /\ last.slug # None /\ last.slug # Some(<<>>)
   /\ last.lat # None /\ last.lng # None)
    => /\ last.apicalled
       /\ last.method = "getBySlug"
       /\ last.area_type = AreaOf(last.ns)
       /\ DOMAIN last.params = {"slug"}
       /\ last.params.slug = last.slug[1]
       /\ "getByLatLng" \notin Tokens(last.url)
       /\ "lat" \notin Tokens(last.url)
       /\ \A i \in 1..Len(last.ret) :
            \A f \in Formats :
              "getByLatLng" \notin Tokens(last.ret[i].d[UrlAttr(f)])

\* C6 happens: neighborhoods.get is given a slug and both coordinates, and
\* returns an entity.
C6_Witness ==
  /\ last.op = "get" /\ last.ns = "neighborhoods"
  /\ last.slug = Some(<<"e", " ", "p">>)
  /\ last.lat = Some(34) /\ last.lng = Some(-118)
  /\ last.nget = 1 /\ last.exc = "none" /\ Len(last.ret) = 1

\* C7: a read of an accessor issues a GET to that accessor's URL only,
\* leaves the cache, the other entities and every other attribute of the
\* entity alone, the slots of the other two accessors included, and a
\* read of an unset slot with a URL always issues its GET.
C7_AccessorIndependence ==
  [][last'.op = "read"
       => LET i == last'.obj
              f == last'.format
          IN /\ cache' = cache
             /\ last'.nget = 1 => last'.url = objs[i].d[UrlAttr(f)]
             /\ FirstRead => last'.nget = 1
             /\ \A j \in 1..Len(objs) : j # i => objs'[j] = objs[j]
             /\ objs'[i].cls = objs[i].cls
             /\ \A g \in Formats \ {f} :
                  getattr(objs'[i].d, cache_attr(g))
                    = getattr(objs[i].d, cache_attr(g))
             /\ \A k \in (DOMAIN objs[i].d \cup DOMAIN objs'[i].d)
                           \ {"_cached_json", "_cached_kml", "_cached_kmz"} :
                  /\ k \in DOMAIN objs[i].d /\ k \in DOMAIN objs'[i].d
                  /\ objs'[i].d[k] = objs[i].d[k]]_vars

\* C7 happens: kml is read with one GET on an entity whose json slot is
\* set and whose kmz slot is not.
C7_Witness ==
  /\ last.op = "read" /\ last.format = "kml"
  /\ last.nget = 1 /\ last.status = 200 /\ last.exc = "none"
  /\ "_cached_json" \in DOMAIN objs[last.obj].d
  /\ "_cached_kml" \in DOMAIN objs[last.obj].d
  /\ "_cached_kmz" \notin DOMAIN objs[last.obj].d

\* C8: an _apicall whose GET fails with an HTTP status other than 404, or
\* below HTTP, raises that same error after that one GET and leaves the
\* cache unchanged; the cache changes only in a call whose GET succeeded.
C8_OtherFailures ==
  [][/\ (last'.apicalled /\ last'.nget = 1 /\ last'.status \notin {200, 404})
          => /\ ngets' = ngets + 1
             /\ cache' = cache
             /\ last'.response = None
             /\ IF last'.status = 0 THEN last'.exc = "URLError"
                ELSE last'.exc = "HTTPError" /\ last'.code = last'.status
     /\ cache' # cache
          => last'.apicalled /\ last'.nget = 1 /\ last'.status = 200]_vars

\* C8 happens: an _apicall is answered 500 while the cache holds an entry.
C8_Witness ==
  /\ last.apicalled /\ last.nget = 1 /\ last.status = 500
  /\ last.exc = "HTTPError" /\ last.code = 500
  /\ DOMAIN cache # {}

\* C9: the entities all() and get() return are of the variant of the
\* namespace they were called on.
C9_VariantMatchesNamespace ==
  last.op \in {"all", "get"}
    => \A i \in 1..Len(last.ret) : last.ret[i].cls = VariantOf(last.ns)

\* C10: the entity a successful get() returns has kml_url, kmz_url and
\* json_url equal to the URL _makeurl builds from the request's area type,
\* method and params with that format, whatever the body holds under those
\* names, and json_url is the URL the call requested.
C10_ResourceUrls ==
  (last.op = "get" /\ last.exc = "none")
    => /\ Len(last.ret) = 1
       /\ last.area_type = AreaOf(last.ns)
       /\ \A f \in Formats :
            /\ UrlAttr(f) \in DOMAIN last.ret[1].d
            /\ last.ret[1].d[UrlAttr(f)]
                 = makeurl("v1", last.area_type, last.method, f, last.params)
       /\ last.ret[1].d.json_url = last.url

\* C10 happens: regions.get by coordinates is answered a body that has a
\* json_url of its own.
C10_Witness ==
  /\ last.op = "get" /\ last.ns = "regions" /\ last.exc = "none"
  /\ last.method = "getByLatLng"
  /\ last.response = Some(B_OBJ)
  /\ "json_url" \in DOMAIN JsonLoads(B_OBJ)[1]
  /\ last.ret[1].d.json_url # JsonLoads(B_OBJ)[1].json_url

\* C11: the GeographyDoesNotExist a get() by slug raises on a 404 carries
\* the slug that was asked for as its payload (its .parameter), so that the
\* errors of two such calls for different slugs differ.
C11_ErrorPayload ==
  (last.op = "get" /\ last.exc = "GeographyDoesNotExist"
     /\ TruthySeq(last.slug))
    => last.parameter = last.slug

\* C12: an entry of the ResponseCache is never removed and never replaced:
\* a URL that is a key stays a key, mapped to the same body, over every call.
C12_CacheMonotone ==
  [][\A u \in DOMAIN cache : u \in DOMAIN cache' /\ cache'[u] = cache[u]]_vars

\* urllib.unquote_plus of one token of a query string
UnquotePlusChar(t) ==
  CASE t = "+" -> " "
    [] t = "%26" -> "&"
    [] t = "%2F" -> "/"
    [] t = "%3D" -> "="
    [] OTHER -> t

\* the pieces of q between the tokens sep
RECURSIVE SplitOn(_, _)
SplitOn(q, sep) ==
  IF \A i \in 1..Len(q) : q[i] # sep THEN <<q>>
  ELSE LET n == CHOOSE i \in 1..Len(q) :
                  q[i] = sep /\ \A j \in 1..(i - 1) : q[j] # sep
       IN <<[i \in 1..(n - 1) |-> q[i]]>>
            \o SplitOn([i \in 1..(Len(q) - n) |-> q[n + i]], sep)

\* the (key, value) pairs a query string decodes to, as urlparse.parse_qsl
\* reads it
DecodeQuery(q) ==
  LET parts == SplitOn(q, "&")
  IN {<<parts[n][1],
        [i \in 1..(Len(parts[n]) - 2) |-> UnquotePlusChar(parts[n][i + 2])]>> :
        n \in {m \in 1..Len(parts) :
                 Len(parts[m]) >= 2 /\ parts[m][2] = "="}}

\* the pairs of params, each value as its str()
SuppliedPairs(params) ==
  {<<k, ParamStr(k, params[k])>> : k \in DOMAIN params}

\* C13: a call of _makeurl changes neither the cache nor an entity, and
\* whatever they hold the URL it returns is the base, the version (v1 when
\* left out), '/', the area type, '/', the method, '.', the format (json
\* when left out), followed by nothing when params is empty and otherwise
\* by '?' and a query string of one key=value piece per supplied pair that
\* decodes to exactly the supplied pairs.
C13_MakeUrlPure ==
  [][last'.op = "makeurl"
       => LET c == last'
              v == IF c.version = None THEN "v1" ELSE c.version[1]
              f == IF c.format = "" THEN "json" ELSE c.format
              q == [i \in 1..(Len(c.url) - 9) |-> c.url[i + 9]]
          IN /\ cache' = cache
             /\ objs' = objs
             /\ Len(c.url) >= 8
             /\ [i \in 1..8 |-> c.url[i]]
                  = <<"http://projects.latimes.com/mapping-la/api/", v, "/",
                      c.area_type, "/", c.method, ".", f>>
             /\ (Len(c.url) = 8) <=> (DOMAIN c.params = {})
             /\ DOMAIN c.params # {}
                  => /\ c.url[9] = "?"
                     /\ Len(SplitOn(q, "&")) = Cardinality(DOMAIN c.params)
                     /\ DecodeQuery(q) = SuppliedPairs(c.params)]_vars

\* C13 happens: _makeurl is called with a slug that needs quoting, after a
\* get() has filled the cache and made an entity.
C13_Witness ==
  /\ last.op = "makeurl"
  /\ last.params = [slug |-> <<"d", "&", "t", "=", "/", "p">>]
  /\ last.version = None /\ last.format = "kml"
  /\ DOMAIN cache # {} /\ Len(objs) > 0

\* C14: in both namespaces a get() whose slug is absent or empty and whose
\* lat and lng are both truthy requests getByLatLng with the namespace's
\* singular area type and params exactly {lat, lng}, from the URL whose
\* query string decodes to these two pairs, and issues at most one GET
\* (none when the URL is cached with a non-empty body).
C14_CoordinateAddressing ==
  [][(/\ last'.op = "get"
      /\ ~TruthySeq(last'.slug)
      /\ TruthyNum(last'.lat) /\ TruthyNum(last'.lng))
       => LET c == last'
          IN /\ c.apicalled
             /\ c.method = "getByLatLng"
             /\ c.area_type = AreaOf(c.ns)
             /\ c.params = [lat |-> c.lat[1], lng |-> c.lng[1]]
             /\ [i \in 1..9 |-> c.url[i]]
                  = <<"http://projects.latimes.com/mapping-la/api/", "v1",
                      "/", AreaOf(c.ns), "/", "getByLatLng", ".", "json", "?">>
             /\ DecodeQuery([i \in 1..(Len(c.url) - 9) |-> c.url[i + 9]])
                  = {<<"lat", StrInt(c.lat[1])>>, <<"lng", StrInt(c.lng[1])>>}
             /\ ngets' = ngets + c.nget
             /\ c.nget \in {0, 1}
             /\ (c.url \in DOMAIN cache /\ cache[c.url] # "") => c.nget = 0]_vars

\* C14 happens: regions.get with an empty slug and both coordinates fetches
\* the region by coordinates.
C14_Witness ==
  /\ last.op = "get" /\ last.ns = "regions"
  /\ last.slug = Some(<<>>)
  /\ last.lat = Some(34) /\ last.lng = Some(-118)
  /\ last.method = "getByLatLng" /\ last.nget = 1 /\ last.exc = "none"

\* the array a listing body holds under the plural key ns, if it decodes
\* and has one
Listed(ns, body) ==
  LET dec == JsonLoads(body)
  IN IF dec # None /\ ns \in DOMAIN dec[1] THEN Some(dec[1][ns]) ELSE None

\* C15: all() of either namespace requests getList with the singular area
\* type and no params; when it returns, it returns one entity per element of
\* the array under the plural key of the body, in the array's order, each
\* with exactly the fields of its element; and an all() made when the
\* listing URL is cached with a body that lists issues no GET and returns
\* the entities of that body.
C15_Listing ==
  [][last'.op = "all"
       => LET c == last'
          IN /\ c.apicalled
             /\ c.method = "getList"
             /\ c.area_type = AreaOf(c.ns)
             /\ c.params = NoParams
             /\ c.url = <<"http://projects.latimes.com/mapping-la/api/", "v1",
                          "/", AreaOf(c.ns), "/", "getList", ".", "json">>
             /\ c.exc = "none"
                  => /\ Listed(c.ns, c.response[1]) # None
                     /\ Len(c.ret) = Len(Listed(c.ns, c.response[1])[1])
                     /\ \A i \in 1..Len(c.ret) :
                          c.ret[i].d = Listed(c.ns, c.response[1])[1][i]
             /\ (c.url \in DOMAIN cache /\ Listed(c.ns, cache[c.url]) # None)
                  => /\ c.nget = 0
                     /\ c.exc = "none"
                     /\ c.response = Some(cache[c.url])
                     /\ cache' = cache]_vars

\* C15 happens: a second neighborhoods.all() is served the two listed
\* neighborhoods from the cache.
C15_Witness ==
  /\ last.op = "all" /\ last.ns = "neighborhoods"
  /\ last.nget = 0 /\ last.exc = "none"
  /\ Len(last.ret) = 2
  /\ last.ret[1].d = [name |-> "Acton", kml_url |-> <<"k">>]
  /\ last.ret[2].d = [name |-> "Adams"]

\* C16: nothing keeps two threads from fetching one URL twice.  Whether a
\* thread passes the look in the cache, or at the attribute, depends on
\* what is stored there alone, not on what the other thread is doing; and
\* a thread that has passed it issues its GET when it goes on, whatever
\* has been stored in the meantime.
C16_NoMutualExclusion ==
  [][\A t \in Threads :
       /\ (last'.op = "apicall_check" /\ last'.thread = t)
            => ((threads'[t].pc = "apicall")
                  <=> ~(/\ last'.url \in DOMAIN cache
                        /\ cache[last'.url] # ""))
       /\ (last'.op = "get_url_check" /\ last'.thread = t)
            => ((threads'[t].pc = "get_url")
                  <=> ~Truthy(last'.format,
                              getattr(objs[last'.obj].d,
                                      cache_attr(last'.format))))
       /\ (threads[t].pc \in {"apicall", "get_url"}
             /\ threads'[t].pc = "idle")
            => /\ last'.thread = t
               /\ last'.nget = 1
               /\ ngets' = ngets + 1]_vars

\* C16 happens: both threads passed the look in the cache for one URL
\* before either stored a body, and the second of two successful GETs for
\* that URL arrives when the first one's body is already in the cache.
C16_Witness ==
  /\ last.op = "apicall_fetch"
  /\ last.raced
  /\ last.nget = 1 /\ last.status = 200
  /\ Count(okGets, last.url) = 2
  /\ ngets = 2

\* C17: a read of json, kml or kmz that raises (the GET fails, or for json
\* the body does not decode or has no 'boundaries') changes no entity and
\* not the cache; so the slot stays unset, and a read of an accessor whose
\* slot is unset issues a GET and, when it returns, has stored the value
\* it returns in the slot.
C17_FailedReadLeavesEntity ==
  [][last'.op = "read"
       => LET c == last'
              attr == cache_attr(c.format)
          IN /\ c.exc # "none" => (objs' = objs /\ cache' = cache)
             /\ FirstRead
                  => /\ c.nget = 1
                     /\ c.exc = "none"
                          => /\ c.value # None
                             /\ getattr(objs'[c.obj].d, attr) = c.value]_vars

\* C17 happens: the first read of json on an entity just made by a get()
\* failed, and the next read of json on that entity fetches again and
\* memoizes the boundaries (three GETs: the get(), the two reads).
C17_Witness ==
  /\ last.op = "read" /\ last.format = "json"
  /\ last.again
  /\ ngets = 3
  /\ last.nget = 1 /\ last.exc = "none"
  /\ last.value = Some(<<"poly">>)
  /\ getattr(objs[last.obj].d, "_cached_json") = last.value

\* the exception decoding body raises in get() (op = "get") or in all() of
\* namespace ns (op = "all"); "none" when it decodes
DecodeFailure(op, ns, body) ==
  IF JsonLoads(body) = None THEN "ValueError"
  ELSE IF op = "all" /\ ns \notin DOMAIN JsonLoads(body)[1] THEN "KeyError"
  ELSE "none"

\* C18: a non-empty body answered 200 is in the cache when the call is
\* over, also when get() or all() fails to decode it; the call then raises
\* the decode failure; a get() or all() whose URL is cached with a
\* non-empty body that does not decode for it raises that same failure
\* without a GET and leaves the cache as it is; and no call ever changes or
\* removes a non-empty entry.
C18_UndecodableCached ==
  [][/\ (last'.op \in {"get", "all"} /\ last'.apicalled)
          => LET c == last'
             IN /\ (c.nget = 1 /\ c.status = 200 /\ c.response[1] # "")
                     => /\ c.url \in DOMAIN cache'
                        /\ cache'[c.url] = c.response[1]
                        /\ c.exc = DecodeFailure(c.op, c.ns, c.response[1])
                /\ (/\ c.url \in DOMAIN cache
                    /\ cache[c.url] # ""
                    /\ DecodeFailure(c.op, c.ns, cache[c.url]) # "none")
                     => /\ c.nget = 0
                        /\ c.exc = DecodeFailure(c.op, c.ns, cache[c.url])
                        /\ c.ret = <<>>
                        /\ cache' = cache
     /\ \A u \in DOMAIN cache :
          cache[u] # "" => (u \in DOMAIN cache' /\ cache'[u] = cache[u])]_vars

\* C18 happens: a get() finds the non-JSON body of an earlier GET in the
\* cache and fails on it without a GET.
C18_Witness ==
  /\ last.op = "get" /\ last.apicalled
  /\ last.nget = 0
  /\ last.response = Some(B_KML)
  /\ last.exc = "ValueError"
  /\ last.url \in DOMAIN cache /\ cache[last.url] = B_KML

\* the memoization slots
Slots == {"_cached_json", "_cached_kml", "_cached_kmz"}

\* C19: memoization belongs to the one entity object.  A get() or all()
\* leaves the entities the caller already holds as they are and returns
\* entities with no slot set, whatever former entities for the same slug
\* or listing have memoized; a read changes no entity but the one it is
\* made on and does not change the cache; and a first read on an entity
\* issues its own GET also when another entity with the same resource URL
\* has that accessor memoized.
C19_PerEntityMemo ==
  [][/\ last'.op \in {"get", "all"}
          => /\ Len(objs') >= Len(objs)
             /\ \A j \in 1..Len(objs) : objs'[j] = objs[j]
             /\ \A j \in 1..Len(last'.ret) :
                  DOMAIN last'.ret[j].d \cap Slots = {}
             /\ \A j \in (Len(objs) + 1)..Len(objs') :
                  objs'[j] = last'.ret[j - Len(objs)]
     /\ last'.op = "read"
          => LET i == last'.obj
                 attr == cache_attr(last'.format)
             IN /\ cache' = cache
                /\ \A j \in 1..Len(objs) : j # i => objs'[j] = objs[j]
                /\ Len(objs') = Len(objs)
                /\ (/\ FirstRead
                    /\ \E j \in 1..Len(objs) :
                         /\ j # i
                         /\ UrlAttr(last'.format) \in DOMAIN objs[j].d
                         /\ objs[j].d[UrlAttr(last'.format)]
                              = objs[i].d[UrlAttr(last'.format)]
                         /\ Truthy(last'.format, getattr(objs[j].d, attr)))
                     => /\ last'.nget = 1
                        /\ ngets' = ngets + 1
                        /\ last'.url = objs[i].d[UrlAttr(last'.format)]]_vars

\* C19 happens: two entities made by two get() for one slug; kml has been
\* read and memoized on the first, and the first read of kml on the second
\* issues a GET of its own.
C19_Witness ==
  /\ last.op = "read" /\ last.format = "kml" /\ last.obj = 2
  /\ last.nget = 1 /\ last.exc = "none"
  /\ Len(objs) = 2
  /\ {"kml_url", "_cached_kml"} \subseteq DOMAIN objs[1].d
  /\ "kml_url" \in DOMAIN objs[2].d
  /\ objs[1].d.kml_url = objs[2].d.kml_url
  /\ objs[1].d._cached_kml # ""
  /\ objs[1].cls = objs[2].cls

====
